---------------------------- MODULE Spec2Model ----------------------------
(***************************************************************************)
(* Model of src/utils/claudeFormat.js: the non-streaming converter         *)
(* antigravityToClaudeResponse and the streaming ClaudeStreamHandler.      *)
(* Strings are sequences of one-character strings; the response object     *)
(* `res` of a handler is an append-only log of written SSE events plus the *)
(* number of res.end() calls.                                              *)
(***************************************************************************)
EXTENDS Integers, Sequences, FiniteSets, TLC

VARIABLES handlers, sinks, calls, pending, content, response

vars == <<handlers, sinks, calls, pending, content, response>>

(***************************************************************************)
(* Bounds of the model.                                                    *)
(***************************************************************************)
MaxCalls == 4
MaxPairCalls == 3
MaxCuts == 2
MaxMiddle == 1
MaxParts == 5

(***************************************************************************)
(* String primitives of JavaScript used by the source.                     *)
(***************************************************************************)
StartMarker == <<"<", "t", "h", "i", "n", "k", ">">>
EndMarker == <<"<", "/", "t", "h", "i", "n", "k", ">">>

\* characters matched by \s and removed by String.prototype.trim
IsSpace(c) == c \in {" ", "\n", "\t", "\r"}

\* 1-based positions at which sub occurs in s
Occurrences(s, sub) ==
  {i \in 1..(Len(s) - Len(sub) + 1) : SubSeq(s, i, i + Len(sub) - 1) = sub}

Min(S) == CHOOSE x \in S : \A y \in S : x <= y

\* String.prototype.includes
includes(s, sub) == Occurrences(s, sub) # {}

\* String.prototype.replace(sub, '') with a string pattern: first occurrence only
removeFirst(s, sub) ==
  IF ~includes(s, sub) THEN s
  ELSE LET i == Min(Occurrences(s, sub))
       IN SubSeq(s, 1, i - 1) \o SubSeq(s, i + Len(sub), Len(s))

\* String.prototype.replace(/\n$/, ''): one newline at the very end of the string
stripFinalNewline(s) ==
  IF Len(s) > 0 /\ s[Len(s)] = "\n" THEN SubSeq(s, 1, Len(s) - 1) ELSE s

RECURSIVE trimStart(_)
trimStart(s) ==
  IF Len(s) > 0 /\ IsSpace(s[1]) THEN trimStart(Tail(s)) ELSE s

RECURSIVE trimEnd(_)
trimEnd(s) ==
  IF Len(s) > 0 /\ IsSpace(s[Len(s)]) THEN trimEnd(SubSeq(s, 1, Len(s) - 1)) ELSE s

\* String.prototype.trim
trim(s) == trimEnd(trimStart(s))

\* JavaScript truthiness of a string
Truthy(s) == s # <<>>

\* `usage.field || 0` on a usage object whose fields may be absent
FieldOrZero(usage, field) == IF field \in DOMAIN usage THEN usage[field] ELSE 0

(***************************************************************************)
(* SSE events and the response object.                                     *)
(***************************************************************************)
\* createClaudeStreamEvent: the frame `event: <eventType>\ndata: <json>\n\n`
createClaudeStreamEvent(eventType, data) == [event |-> eventType, data |-> data]

\* variant: the frame goes to one response shared by all handlers
writeClaudeStreamEvent_Shared(out, res, eventType, data) ==
  LET shared == CHOOSE r \in DOMAIN out : \A q \in DOMAIN out : r <= q
  IN [out EXCEPT ![shared].written = Append(@, [event |-> eventType, data |-> data])]

\* writeClaudeStreamEvent: res.write(frame) on the handler's own response
writeClaudeStreamEvent(out, res, eventType, data) ==
  [out EXCEPT ![res].written = Append(@, createClaudeStreamEvent(eventType, data))]

\* res.end()
resEnd(out, res) == [out EXCEPT ![res].ended = @ + 1]

NewSink == [written |-> <<>>, ended |-> 0]

(***************************************************************************)
(* ClaudeStreamHandler.  A method takes and returns a pair                 *)
(* [h |-> the handler's fields, out |-> the response objects].             *)
(***************************************************************************)
constructor(res, messageId, model) ==
  [res |-> res, messageId |-> messageId, model |-> model,
   contentIndex |-> 0, hasStarted |-> FALSE, thinkingBuffer |-> <<>>,
   inThinking |-> FALSE, hasContent |-> FALSE,
   totalInputTokens |-> 0, totalOutputTokens |-> 0]

start(w) ==
  [h |-> [w.h EXCEPT !.hasStarted = TRUE],
   out |-> writeClaudeStreamEvent(w.out, w.h.res, "message_start",
             [type |-> "message_start",
              id |-> w.h.messageId, model |-> w.h.model,
              input_tokens |-> 0, output_tokens |-> 0])]

\* variant: the delta is written before the block is opened
sendContentBlock_DeltaFirst(w, text) ==
  LET w1 == [w EXCEPT !.out = writeClaudeStreamEvent(w.out, w.h.res, "content_block_delta",
                                [type |-> "content_block_delta",
                                 index |-> w.h.contentIndex, text |-> text])]
  IN IF ~w1.h.hasContent
     THEN [h |-> [w1.h EXCEPT !.hasContent = TRUE],
           out |-> writeClaudeStreamEvent(w1.out, w1.h.res, "content_block_start",
                     [type |-> "content_block_start",
                      index |-> w1.h.contentIndex, text |-> <<>>])]
     ELSE w1

\* variant: the block flag is never set
sendContentBlock_NoFlag(w, text) ==
  LET w1 == IF ~w.h.hasContent
            THEN [w EXCEPT !.out = writeClaudeStreamEvent(w.out, w.h.res, "content_block_start",
                                     [type |-> "content_block_start",
                                      index |-> w.h.contentIndex, text |-> <<>>])]
            ELSE w
  IN [w1 EXCEPT !.out = writeClaudeStreamEvent(w1.out, w1.h.res, "content_block_delta",
                          [type |-> "content_block_delta",
                           index |-> w1.h.contentIndex, text |-> text])]

sendContentBlock(w, text) ==
  LET w1 == IF ~w.h.hasContent
            THEN [h |-> [w.h EXCEPT !.hasContent = TRUE],
                  out |-> writeClaudeStreamEvent(w.out, w.h.res, "content_block_start",
                            [type |-> "content_block_start",
                             index |-> w.h.contentIndex, text |-> <<>>])]
            ELSE w
  IN [w1 EXCEPT !.out = writeClaudeStreamEvent(w1.out, w1.h.res, "content_block_delta",
                          [type |-> "content_block_delta",
                           index |-> w1.h.contentIndex, text |-> text])]

\* variant: in normal mode a stray end marker is removed from the visible text
handleContent_DropsStrayEnd(w, c) ==
  IF includes(c, StartMarker)
  THEN [w EXCEPT !.h.inThinking = TRUE,
                 !.h.thinkingBuffer = stripFinalNewline(removeFirst(c, StartMarker))]
  ELSE IF w.h.inThinking
  THEN IF includes(c, EndMarker)
       THEN LET buf == w.h.thinkingBuffer \o stripFinalNewline(removeFirst(c, EndMarker))
                w1 == [w EXCEPT !.h.thinkingBuffer = buf, !.h.inThinking = FALSE]
                w2 == IF Truthy(trim(buf)) THEN sendContentBlock(w1, trim(buf)) ELSE w1
            IN [w2 EXCEPT !.h.thinkingBuffer = <<>>]
       ELSE [w EXCEPT !.h.thinkingBuffer = @ \o c]
  ELSE IF Truthy(removeFirst(c, EndMarker))
       THEN sendContentBlock(w, removeFirst(c, EndMarker))
       ELSE w

\* variant: a reasoning fragment is also sent at once
handleContent_StreamsReasoning(w, c) ==
  IF includes(c, StartMarker)
  THEN [w EXCEPT !.h.inThinking = TRUE,
                 !.h.thinkingBuffer = stripFinalNewline(removeFirst(c, StartMarker))]
  ELSE IF w.h.inThinking
  THEN IF includes(c, EndMarker)
       THEN LET buf == w.h.thinkingBuffer \o stripFinalNewline(removeFirst(c, EndMarker))
                w1 == [w EXCEPT !.h.thinkingBuffer = buf, !.h.inThinking = FALSE]
                w2 == IF Truthy(trim(buf)) THEN sendContentBlock(w1, trim(buf)) ELSE w1
            IN [w2 EXCEPT !.h.thinkingBuffer = <<>>]
       ELSE LET w1 == [w EXCEPT !.h.thinkingBuffer = @ \o c]
            IN IF Truthy(c) THEN sendContentBlock(w1, c) ELSE w1
  ELSE IF Truthy(c) THEN sendContentBlock(w, c) ELSE w

\* variant: no test for an empty fragment before it is sent
handleContent_NoEmptyGuard(w, c) ==
  IF includes(c, StartMarker)
  THEN [w EXCEPT !.h.inThinking = TRUE,
                 !.h.thinkingBuffer = stripFinalNewline(removeFirst(c, StartMarker))]
  ELSE IF w.h.inThinking
  THEN IF includes(c, EndMarker)
       THEN LET buf == w.h.thinkingBuffer \o stripFinalNewline(removeFirst(c, EndMarker))
                w1 == [w EXCEPT !.h.thinkingBuffer = buf, !.h.inThinking = FALSE]
                w2 == IF Truthy(trim(buf)) THEN sendContentBlock(w1, trim(buf)) ELSE w1
            IN [w2 EXCEPT !.h.thinkingBuffer = <<>>]
       ELSE [w EXCEPT !.h.thinkingBuffer = @ \o c]
  ELSE sendContentBlock(w, c)

\* variant: the accumulator is not cleared after the flush at the end marker
handleContent_KeepsBuffer(w, c) ==
  IF includes(c, StartMarker)
  THEN [w EXCEPT !.h.inThinking = TRUE,
                 !.h.thinkingBuffer = stripFinalNewline(removeFirst(c, StartMarker))]
  ELSE IF w.h.inThinking
  THEN IF includes(c, EndMarker)
       THEN LET buf == w.h.thinkingBuffer \o stripFinalNewline(removeFirst(c, EndMarker))
                w1 == [w EXCEPT !.h.thinkingBuffer = buf, !.h.inThinking = FALSE]
            IN IF Truthy(trim(buf)) THEN sendContentBlock(w1, trim(buf)) ELSE w1
       ELSE [w EXCEPT !.h.thinkingBuffer = @ \o c]
  ELSE IF Truthy(c) THEN sendContentBlock(w, c) ELSE w

handleContent(w, c) ==
  IF includes(c, StartMarker)
  THEN [w EXCEPT !.h.inThinking = TRUE,
                 !.h.thinkingBuffer = stripFinalNewline(removeFirst(c, StartMarker))]
  ELSE IF w.h.inThinking
  THEN IF includes(c, EndMarker)
       THEN LET buf == w.h.thinkingBuffer \o stripFinalNewline(removeFirst(c, EndMarker))
                w1 == [w EXCEPT !.h.thinkingBuffer = buf, !.h.inThinking = FALSE]
                w2 == IF Truthy(trim(buf)) THEN sendContentBlock(w1, trim(buf)) ELSE w1
            IN [w2 EXCEPT !.h.thinkingBuffer = <<>>]
       ELSE [w EXCEPT !.h.thinkingBuffer = @ \o c]
  ELSE IF Truthy(c) THEN sendContentBlock(w, c) ELSE w

\* variant: the first usage report is kept, later ones are ignored
handleUsage_FirstWins(w, usage) ==
  IF w.h.totalInputTokens = 0 /\ w.h.totalOutputTokens = 0
  THEN [w EXCEPT !.h.totalInputTokens = FieldOrZero(usage, "prompt_tokens"),
                 !.h.totalOutputTokens = FieldOrZero(usage, "completion_tokens")]
  ELSE w

handleUsage(w, usage) ==
  [w EXCEPT !.h.totalInputTokens = FieldOrZero(usage, "prompt_tokens"),
            !.h.totalOutputTokens = FieldOrZero(usage, "completion_tokens")]

\* variant: content_block_stop is written whether or not a block was opened
end_AlwaysStop(w) ==
  LET w1 == IF w.h.inThinking /\ Truthy(trim(w.h.thinkingBuffer))
            THEN sendContentBlock(w, trim(w.h.thinkingBuffer))
            ELSE w
      w2 == [w1 EXCEPT !.out = writeClaudeStreamEvent(w1.out, w1.h.res, "content_block_stop",
                                 [type |-> "content_block_stop",
                                  index |-> w1.h.contentIndex])]
      w3 == [w2 EXCEPT !.out = writeClaudeStreamEvent(w2.out, w2.h.res, "message_delta",
                                 [type |-> "message_delta", stop_reason |-> "end_turn",
                                  output_tokens |-> w2.h.totalOutputTokens])]
      w4 == [w3 EXCEPT !.out = writeClaudeStreamEvent(w3.out, w3.h.res, "message_stop",
                                 [type |-> "message_stop"])]
  IN [w4 EXCEPT !.out = resEnd(w4.out, w4.h.res)]

\* variant: an unfinished reasoning segment is flushed without the test for blank text
end_FlushesBlank(w) ==
  LET w1 == IF w.h.inThinking
            THEN sendContentBlock(w, trim(w.h.thinkingBuffer))
            ELSE w
      w2 == IF w1.h.hasContent
            THEN [w1 EXCEPT !.out = writeClaudeStreamEvent(w1.out, w1.h.res, "content_block_stop",
                                      [type |-> "content_block_stop",
                                       index |-> w1.h.contentIndex])]
            ELSE w1
      w3 == [w2 EXCEPT !.out = writeClaudeStreamEvent(w2.out, w2.h.res, "message_delta",
                                 [type |-> "message_delta", stop_reason |-> "end_turn",
                                  output_tokens |-> w2.h.totalOutputTokens])]
      w4 == [w3 EXCEPT !.out = writeClaudeStreamEvent(w3.out, w3.h.res, "message_stop",
                                 [type |-> "message_stop"])]
  IN [w4 EXCEPT !.out = resEnd(w4.out, w4.h.res)]

end(w) ==
  LET w1 == IF w.h.inThinking /\ Truthy(trim(w.h.thinkingBuffer))
            THEN sendContentBlock(w, trim(w.h.thinkingBuffer))
            ELSE w
      w2 == IF w1.h.hasContent
            THEN [w1 EXCEPT !.out = writeClaudeStreamEvent(w1.out, w1.h.res, "content_block_stop",
                                      [type |-> "content_block_stop",
                                       index |-> w1.h.contentIndex])]
            ELSE w1
      w3 == [w2 EXCEPT !.out = writeClaudeStreamEvent(w2.out, w2.h.res, "message_delta",
                                 [type |-> "message_delta", stop_reason |-> "end_turn",
                                  output_tokens |-> w2.h.totalOutputTokens])]
      w4 == [w3 EXCEPT !.out = writeClaudeStreamEvent(w3.out, w3.h.res, "message_stop",
                                 [type |-> "message_stop"])]
  IN [w4 EXCEPT !.out = resEnd(w4.out, w4.h.res)]

(***************************************************************************)
(* antigravityToClaudeResponse.                                            *)
(***************************************************************************)
\* positions where /<think>([\s\S]*?)<\/think>/ can match: a start marker
\* with an end marker somewhere behind it
MatchStarts(s) ==
  {p \in Occurrences(s, StartMarker) :
     \E q \in Occurrences(s, EndMarker) : q >= p + Len(StartMarker)}

\* variant: a greedy body, running to the last end marker
thinkMatch_Greedy(s) ==
  IF MatchStarts(s) = {}
  THEN [found |-> FALSE, open |-> 0, close |-> 0]
  ELSE LET p == CHOOSE x \in MatchStarts(s) : \A y \in MatchStarts(s) : x <= y
           ends == Occurrences(s, EndMarker)
       IN [found |-> TRUE, open |-> p,
           close |-> CHOOSE x \in ends : \A y \in ends : x >= y]

\* variant: a start marker without an end marker matches to the end of the string
thinkMatch_OpenEnded(s) ==
  IF MatchStarts(s) # {}
  THEN LET p == Min(MatchStarts(s))
           q == Min({q \in Occurrences(s, EndMarker) : q >= p + Len(StartMarker)})
       IN [found |-> TRUE, open |-> p, close |-> q]
  ELSE IF includes(s, StartMarker)
  THEN [found |-> TRUE, open |-> Min(Occurrences(s, StartMarker)), close |-> Len(s) + 1]
  ELSE [found |-> FALSE, open |-> 0, close |-> 0]

\* content.match(/<think>([\s\S]*?)<\/think>/): leftmost start, lazy body
thinkMatch(s) ==
  IF MatchStarts(s) = {}
  THEN [found |-> FALSE, open |-> 0, close |-> 0]
  ELSE LET p == Min(MatchStarts(s))
           q == Min({q \in Occurrences(s, EndMarker) : q >= p + Len(StartMarker)})
       IN [found |-> TRUE, open |-> p, close |-> q]

\* capture group 1 of the match
matchGroup(s, m) == SubSeq(s, m.open + Len(StartMarker), m.close - 1)

\* content.replace(/<think>[\s\S]*?<\/think>\s*/, '')
removeThink(s, m) ==
  SubSeq(s, 1, m.open - 1) \o trimStart(SubSeq(s, m.close + Len(EndMarker), Len(s)))

textBlock(text) == [type |-> "text", text |-> text]

\* usage is <<>> for null and <<u>> for a usage object u
antigravityToClaudeResponse(c, model, usage, requestId) ==
  LET m == thinkMatch(c)
      thinkingContent == IF m.found THEN trim(matchGroup(c, m)) ELSE <<>>
      mainContent == IF m.found THEN trim(removeThink(c, m)) ELSE c
      b1 == IF Truthy(thinkingContent) THEN <<textBlock(thinkingContent)>> ELSE <<>>
      b2 == IF Truthy(mainContent) THEN Append(b1, textBlock(mainContent)) ELSE b1
      contentBlocks == IF Len(b2) = 0 THEN <<textBlock(<<>>)>> ELSE b2
      base == [id |-> <<"msg_", requestId>>, type |-> "message", role |-> "assistant",
               content |-> contentBlocks, model |-> model,
               stop_reason |-> "end_turn"]
  IN IF usage # <<>>
     THEN [response |-> base,
           usage |-> <<[input_tokens |-> FieldOrZero(usage[1], "prompt_tokens"),
                        output_tokens |-> FieldOrZero(usage[1], "completion_tokens")]>>]
     ELSE [response |-> base, usage |-> <<>>]

(***************************************************************************)
(* Inputs.                                                                 *)
(***************************************************************************)
Fragments ==
  { <<>>,
    <<"H", "i">>,
    <<" ", "w">>,
    StartMarker \o <<"S", " ">>,
    <<"1">> \o EndMarker,
    StartMarker \o <<"a", "\n">>,
    <<"b">> \o EndMarker \o <<"c">>,
    <<"p">> \o StartMarker,
    StartMarker \o <<" ">>,
    EndMarker }

Usages ==
  { [prompt_tokens |-> 12, completion_tokens |-> 34],
    [prompt_tokens |-> 5] }

PairFragments == { <<"H", "i">>, StartMarker \o <<"S">> }

PairUsages == { [prompt_tokens |-> 12, completion_tokens |-> 34] }

\* <think>X</think>Y, to be cut into sub-fragments
SplitX == <<"X">>
SplitY == <<"Y">>
SplitTexts == { StartMarker \o SplitX \o EndMarker \o SplitY }

CutSets(n) == {S \in SUBSET (1..(n - 1)) : Cardinality(S) <= MaxCuts}

RECURSIVE CutAt(_, _, _)
\* the sub-fragments of s[from..] when cut behind the positions of S
CutAt(s, S, from) ==
  IF {k \in S : k >= from} = {}
  THEN <<SubSeq(s, from, Len(s))>>
  ELSE LET k == Min({k \in S : k >= from})
       IN <<SubSeq(s, from, k)>> \o CutAt(s, S, k + 1)

Splits == UNION {{CutAt(s, S, 1) : S \in CutSets(Len(s))} : s \in SplitTexts}

\* a reasoning segment over several fragments followed by visible fragments
ReasoningHeads == { <<"S", "t", "e", "p", " ">>, <<"a", "\n">> }
ReasoningMiddles == { <<"m">>, <<" ">> }
ReasoningTails == { <<"1">>, <<"b">> }
VisibleFragments == { <<"H", "e", "l", "l", "o">>, <<" ", "w", "o", "r", "l", "d">> }

SeqsUpTo(S, n) == UNION {[1..k -> S] : k \in 0..n}

Scenarios ==
  { <<StartMarker \o r1>> \o mid \o <<rn \o EndMarker>> \o vis :
      r1 \in ReasoningHeads, mid \in SeqsUpTo(ReasoningMiddles, MaxMiddle),
      rn \in ReasoningTails,
      vis \in (SeqsUpTo(VisibleFragments, 2) \ {<<>>}) }

Parts == { StartMarker, EndMarker, <<"A">>, <<"B">>, <<" ">>, <<"\n">> }

RECURSIVE Strings(_)
Strings(n) ==
  IF n = 0 THEN {<<>>}
  ELSE LET shorter == Strings(n - 1)
       IN shorter \cup {s \o p : s \in shorter, p \in Parts}

AssembleUsages == { <<>>, <<[prompt_tokens |-> 12, completion_tokens |-> 34]>> }

(***************************************************************************)
(* The handler under arbitrary calls of its owner.  calls[i] logs the      *)
(* calls made on handler i.                                                *)
(***************************************************************************)
NewHandlers(I) == [i \in I |-> constructor(i, i, "m")]

InitOn(I, feeds, inputs) ==
  /\ handlers = NewHandlers(I)
  /\ sinks = [i \in I |-> NewSink]
  /\ calls = [i \in I |-> <<>>]
  /\ pending \in feeds
  /\ content \in inputs
  /\ response = <<>>

Init == InitOn({1}, {<<>>}, {<<>>})

Apply(i, w, op, arg) ==
  /\ handlers' = [handlers EXCEPT ![i] = w.h]
  /\ sinks' = w.out
  /\ calls' = [calls EXCEPT ![i] = Append(@, [op |-> op, arg |-> arg])]
  /\ UNCHANGED <<content, response>>

World(i) == [h |-> handlers[i], out |-> sinks]

CallBound == IF Cardinality(DOMAIN handlers) > 1 THEN MaxPairCalls ELSE MaxCalls

Start(i) ==
  /\ Len(calls[i]) < CallBound
  /\ Apply(i, start(World(i)), "start", <<>>)
  /\ UNCHANGED pending

HandleContent(i, c) ==
  /\ Len(calls[i]) < CallBound
  /\ Apply(i, handleContent(World(i), c), "handleContent", c)
  /\ UNCHANGED pending

HandleUsage(i, u) ==
  /\ Len(calls[i]) < CallBound
  /\ Apply(i, handleUsage(World(i), u), "handleUsage", u)
  /\ UNCHANGED pending

End(i) ==
  /\ Len(calls[i]) < CallBound
  /\ Apply(i, end(World(i)), "end", <<>>)
  /\ UNCHANGED pending

Next ==
  \/ \E i \in DOMAIN handlers : Start(i)
  \/ \E i \in DOMAIN handlers, c \in Fragments : HandleContent(i, c)
  \/ \E i \in DOMAIN handlers, u \in Usages : HandleUsage(i, u)
  \/ \E i \in DOMAIN handlers : End(i)

Spec == Init /\ [][Next]_vars

(***************************************************************************)
(* Two handlers with distinct response objects, calls interleaved.         *)
(***************************************************************************)
InitPair == InitOn({1, 2}, {<<>>}, {<<>>})

NextPair ==
  \/ \E i \in DOMAIN handlers : Start(i)
  \/ \E i \in DOMAIN handlers, c \in PairFragments : HandleContent(i, c)
  \/ \E i \in DOMAIN handlers, u \in PairUsages : HandleUsage(i, u)
  \/ \E i \in DOMAIN handlers : End(i)

SpecPair == InitPair /\ [][NextPair]_vars

(***************************************************************************)
(* One response fed from an upstream fragment sequence: start(), one       *)
(* handleContent per fragment in order, then end().                        *)
(***************************************************************************)
Ops(log) == [k \in 1..Len(log) |-> log[k].op]

FeedStart ==
  /\ calls[1] = <<>>
  /\ Apply(1, start(World(1)), "start", <<>>)
  /\ UNCHANGED pending

FeedFragment ==
  /\ calls[1] # <<>>
  /\ pending # <<>>
  /\ Apply(1, handleContent(World(1), Head(pending)), "handleContent", Head(pending))
  /\ pending' = Tail(pending)

FeedEnd ==
  /\ calls[1] # <<>>
  /\ pending = <<>>
  /\ calls[1][Len(calls[1])].op # "end"
  /\ Apply(1, end(World(1)), "end", <<>>)
  /\ UNCHANGED pending

NextFeed == FeedStart \/ FeedFragment \/ FeedEnd

InitSplit == InitOn({1}, Splits, {<<>>})

SpecSplit == InitSplit /\ [][NextFeed]_vars

InitScenario == InitOn({1}, Scenarios, {<<>>})

SpecScenario == InitScenario /\ [][NextFeed]_vars

(***************************************************************************)
(* The non-streaming converter applied to one complete response string.    *)
(***************************************************************************)
InitAssemble == InitOn({1}, {<<>>}, Strings(MaxParts))

Assemble ==
  /\ response = <<>>
  /\ \E u \in AssembleUsages :
       response' = <<antigravityToClaudeResponse(content, "m", u, "id")>>
  /\ UNCHANGED <<handlers, sinks, calls, pending, content>>

NextAssemble == Assemble

SpecAssemble == InitAssemble /\ [][NextAssemble]_vars

(***************************************************************************)
(* Observations on a handler's call log and on what its response received. *)
(***************************************************************************)
Written(i) == sinks[i].written

EventTypes(i) == [k \in 1..Len(Written(i)) |-> Written(i)[k].event]

Positions(T, e) == {k \in 1..Len(T) : T[k] = e}

Max(S) == CHOOSE x \in S : \A y \in S : x >= y

\* start() first, then only fragments and usage reports, end() at most once and last
WellFormed(log) ==
  /\ Len(log) >= 1
  /\ log[1].op = "start"
  /\ \A k \in 2..Len(log) :
       \/ log[k].op \in {"handleContent", "handleUsage"}
       \/ k = Len(log) /\ log[k].op = "end"

Complete(log) == WellFormed(log) /\ log[Len(log)].op = "end"

IsDelta(e) == e.event = "content_block_delta"

IsMessageDelta(e) == e.event = "message_delta"

IsMessageStart(e) == e.event = "message_start"

Deltas(i) == SelectSeq(Written(i), IsDelta)

DeltaTexts(i) == [k \in 1..Len(Deltas(i)) |-> Deltas(i)[k].data.text]

\* C1: under start(); fragments and usage reports in any order; end(), the
\* events begin with message_start, content_block_start comes after it and
\* before every content_block_delta, content_block_stop comes after every
\* content_block_delta and before message_delta, and message_stop is last.
EventOrdering ==
  \A i \in DOMAIN handlers :
    LET T == EventTypes(i)
    IN WellFormed(calls[i]) =>
         /\ T[1] = "message_start"
         /\ \A k \in Positions(T, "content_block_start") :
              /\ k > 1
              /\ \A j \in Positions(T, "content_block_delta") : k < j
         /\ \A k \in Positions(T, "content_block_stop") :
              /\ \A j \in Positions(T, "content_block_delta") : j < k
              /\ Positions(T, "message_delta") # {}
              /\ \A j \in Positions(T, "message_delta") : k < j
         /\ Complete(calls[i]) => Positions(T, "message_stop") = {Len(T)}

\* a complete stream that opened a block and wrote two deltas into it
EventOrderingWitness ==
  /\ Complete(calls[1])
  /\ Len(Deltas(1)) = 2
  /\ Positions(EventTypes(1), "content_block_stop") # {}

\* C3: a second end() on a handler that already ended writes no event and
\* does not close the response again.
SecondEndIsNoOp ==
  [][\A i \in DOMAIN handlers :
       (Complete(calls[i]) /\ calls'[i] = Append(calls[i], [op |-> "end", arg |-> <<>>]))
         => sinks'[i] = sinks[i]]_vars

\* C4: after end(), handleContent and handleUsage write no event and leave
\* the handler as it was.
ClosedHandlerRejectsCalls ==
  [][\A i \in DOMAIN handlers :
       ( /\ Complete(calls[i])
         /\ Len(calls'[i]) = Len(calls[i]) + 1
         /\ calls'[i][Len(calls'[i])].op \in {"handleContent", "handleUsage"} )
         => (sinks'[i] = sinks[i] /\ handlers'[i] = handlers[i])]_vars

\* C5: a complete stream in which no fragment produced a delta emits exactly
\* message_start, message_delta, message_stop.
NoContentStream ==
  \A i \in DOMAIN handlers :
    (Complete(calls[i]) /\ Deltas(i) = <<>>)
      => EventTypes(i) = <<"message_start", "message_delta", "message_stop">>

\* start() directly followed by end()
NoContentWitness ==
  /\ Ops(calls[1]) = <<"start", "end">>
  /\ Len(Written(1)) = 3

\* completion_tokens of the last handleUsage among the first k - 1 calls
LastCompletionBefore(log, k) ==
  LET U == {j \in 1..(k - 1) : log[j].op = "handleUsage"}
  IN IF U = {} THEN 0
     ELSE IF "completion_tokens" \in DOMAIN log[Max(U)].arg
          THEN log[Max(U)].arg.completion_tokens
          ELSE 0

\* C6: the message_delta of each end() carries the completion tokens of the
\* most recent handleUsage (0 without one or without the field), and every
\* message_start carries input_tokens 0 and output_tokens 0.
UsageAccounting ==
  \A i \in DOMAIN handlers :
    LET log == calls[i]
        mds == SelectSeq(Written(i), IsMessageDelta)
        mss == SelectSeq(Written(i), IsMessageStart)
        ends == {k \in 1..Len(log) : log[k].op = "end"}
    IN /\ Len(mds) = Cardinality(ends)
       /\ \A k \in ends :
            mds[Cardinality({j \in ends : j <= k})].data.output_tokens
              = LastCompletionBefore(log, k)
       /\ Len(mss) = Cardinality({k \in 1..Len(log) : log[k].op = "start"})
       /\ \A n \in 1..Len(mss) :
            mss[n].data.input_tokens = 0 /\ mss[n].data.output_tokens = 0

\* two usage reports, the later one decides: 34 completion tokens
UsageWitness ==
  /\ Complete(calls[1])
  /\ Cardinality({k \in 1..Len(calls[1]) : calls[1][k].op = "handleUsage"}) = 2
  /\ Written(1)[Len(Written(1)) - 1].data.output_tokens = 34

\* the response has been fed and ended
Ended(i) == calls[i] # <<>> /\ calls[i][Len(calls[i])].op = "end"

\* C2: however <think>X</think>Y is cut into sub-fragments, feeding them in
\* order and ending the stream yields exactly the delta X followed by the
\* delta Y.
SplitRobustness ==
  Ended(1) => DeltaTexts(1) = <<SplitX, SplitY>>

IsContentCall(c) == c.op = "handleContent"

\* the fragments fed so far, in order
Fed(i) ==
  LET cs == SelectSeq(calls[i], IsContentCall)
  IN [k \in 1..Len(cs) |-> cs[k].arg]

RECURSIVE Concat(_)
Concat(ss) == IF ss = <<>> THEN <<>> ELSE Head(ss) \o Concat(Tail(ss))

\* the events the scenario is to produce for the fragments F: the reasoning
\* text between the markers as one delta, then one delta per visible fragment
ScenarioEvents(F) ==
  LET k == Min({j \in 1..Len(F) : includes(F[j], EndMarker)})
      reasoning == SubSeq(F[1], Len(StartMarker) + 1, Len(F[1]))
                     \o Concat(SubSeq(F, 2, k - 1))
                     \o SubSeq(F[k], 1, Len(F[k]) - Len(EndMarker))
      texts == <<reasoning>> \o SubSeq(F, k + 1, Len(F))
  IN <<[event |-> "message_start",
        data |-> [type |-> "message_start", id |-> 1, model |-> "m",
                  input_tokens |-> 0, output_tokens |-> 0]],
       [event |-> "content_block_start",
        data |-> [type |-> "content_block_start", index |-> 0, text |-> <<>>]]>>
     \o [n \in 1..Len(texts) |->
           [event |-> "content_block_delta",
            data |-> [type |-> "content_block_delta", index |-> 0, text |-> texts[n]]]]
     \o <<[event |-> "content_block_stop",
           data |-> [type |-> "content_block_stop", index |-> 0]],
          [event |-> "message_delta",
           data |-> [type |-> "message_delta", stop_reason |-> "end_turn",
                     output_tokens |-> 0]],
          [event |-> "message_stop", data |-> [type |-> "message_stop"]]>>

\* C7: a reasoning segment spread over several fragments, markers whole,
\* followed by visible fragments and no usage report, produces message_start,
\* content_block_start, one delta with the concatenated reasoning text, one
\* delta per visible fragment, content_block_stop, message_delta with 0
\* output tokens, message_stop.
ScenarioOutput ==
  Ended(1) => Written(1) = ScenarioEvents(Fed(1))

applyCall(w, c) ==
  CASE c.op = "start" -> start(w)
    [] c.op = "handleContent" -> handleContent(w, c.arg)
    [] c.op = "handleUsage" -> handleUsage(w, c.arg)
    [] c.op = "end" -> end(w)

RECURSIVE replay(_, _)
replay(w, log) == IF log = <<>> THEN w ELSE replay(applyCall(w, Head(log)), Tail(log))

\* handler i with a response of its own, given the calls of calls[i] and no others
Alone(i) == replay([h |-> constructor(i, i, "m"), out |-> [j \in {i} |-> NewSink]], calls[i])

\* C8: under every interleaving of the calls on two handlers, each handler's
\* fields and the events on its response are those of its own calls run alone.
Independence ==
  \A i \in DOMAIN handlers :
    /\ handlers[i] = Alone(i).h
    /\ sinks[i] = Alone(i).out[i]

\* both handlers streamed content and ended, with different call sequences
IndependenceWitness ==
  /\ DOMAIN handlers = {1, 2}
  /\ Complete(calls[1]) /\ Complete(calls[2])
  /\ Len(Deltas(1)) = 1 /\ Len(Deltas(2)) = 1
  /\ calls[1] # calls[2]

(***************************************************************************)
(* Observations on the converter's input and result.                       *)
(***************************************************************************)
Blocks == response[1].response.content

BlockTexts == [k \in 1..Len(Blocks) |-> Blocks[k].text]

\* the input has a start marker with an end marker behind it
HasSegment(s) ==
  /\ includes(s, StartMarker)
  /\ \E q \in Occurrences(s, EndMarker) :
       q >= Min(Occurrences(s, StartMarker)) + Len(StartMarker)

SegmentOpen(s) == Min(Occurrences(s, StartMarker))

SegmentClose(s) ==
  Min({q \in Occurrences(s, EndMarker) : q >= SegmentOpen(s) + Len(StartMarker)})

\* the text between the markers of the first segment
SegmentText(s) == SubSeq(s, SegmentOpen(s) + Len(StartMarker), SegmentClose(s) - 1)

BeforeSegment(s) == SubSeq(s, 1, SegmentOpen(s) - 1)

AfterSegment(s) == SubSeq(s, SegmentClose(s) + Len(EndMarker), Len(s))

\* the non-empty ones among a reasoning text and a visible text, else one empty text
NonEmptyOrBlank(reasoning, visible) ==
  LET r == IF reasoning # <<>> THEN <<reasoning>> ELSE <<>>
      v == IF visible # <<>> THEN <<visible>> ELSE <<>>
  IN IF r \o v = <<>> THEN << <<>> >> ELSE r \o v

\* the claim of C9 as written: the segment's text and the remaining text, as they are
AssemblyVerbatim ==
  response # <<>> =>
    BlockTexts =
      IF HasSegment(content)
      THEN NonEmptyOrBlank(SegmentText(content),
                           BeforeSegment(content) \o AfterSegment(content))
      ELSE NonEmptyOrBlank(<<>>, content)

\* C9: the content array is never empty; with a <think>...</think> segment it
\* is the segment's text trimmed of surrounding whitespace (if non-empty) and
\* then the remaining text, whitespace behind the end marker dropped and the
\* whole trimmed (if non-empty); without one it is the input unchanged; a
\* single empty text block if nothing is left.
AssemblyTrimmed ==
  response # <<>> =>
    /\ Len(Blocks) >= 1
    /\ \A k \in 1..Len(Blocks) : Blocks[k].type = "text"
    /\ BlockTexts =
         IF HasSegment(content)
         THEN NonEmptyOrBlank(trim(SegmentText(content)),
                              trim(BeforeSegment(content)
                                     \o trimStart(AfterSegment(content))))
         ELSE NonEmptyOrBlank(<<>>, content)
    /\ content = StartMarker \o <<"A">> \o EndMarker \o <<"B">>
         => BlockTexts = << <<"A">>, <<"B">> >>
    /\ content = <<"B">> => BlockTexts = << <<"B">> >>
    /\ content = <<>> => BlockTexts = << <<>> >>

\* a segment with whitespace around its text, and a remainder
AssemblyWitness ==
  /\ response # <<>>
  /\ HasSegment(content)
  /\ SegmentText(content) # trim(SegmentText(content))
  /\ BlockTexts = << <<"A">>, <<"B">> >>

\* a start marker with no end marker behind it
Unterminated(s) == includes(s, StartMarker) /\ ~HasSegment(s)

\* the claim of C10 as written: the text behind an unterminated start marker
\* is the first block, the text before it the visible block, the marker in none
UnterminatedIsReasoning ==
  (response # <<>> /\ Unterminated(content)) =>
    /\ \A k \in 1..Len(Blocks) : ~includes(Blocks[k].text, StartMarker)
    /\ BlockTexts =
         NonEmptyOrBlank(trim(SubSeq(content, SegmentOpen(content) + Len(StartMarker),
                                     Len(content))),
                         trim(BeforeSegment(content)))

\* C10: when the input has a start marker with no end marker behind it, no
\* reasoning block is produced: the content is one text block holding the
\* whole input unchanged, the literal start marker included.
UnterminatedIsVerbatim ==
  (response # <<>> /\ Unterminated(content)) =>
    /\ BlockTexts = <<content>>
    /\ includes(Blocks[1].text, StartMarker)

\* text before and behind an unterminated start marker
UnterminatedWitness ==
  /\ response # <<>>
  /\ content = <<"B">> \o StartMarker \o <<"A">>
  /\ Len(Blocks) = 1

(***************************************************************************)
(* Observations on one handleContent call: the step that makes it.         *)
(***************************************************************************)
\* the step is a handleContent call on handler i
ContentCall(i) ==
  /\ Len(calls'[i]) = Len(calls[i]) + 1
  /\ calls'[i][Len(calls'[i])].op = "handleContent"

\* the fragment of that call
NewFragment(i) == calls'[i][Len(calls'[i])].arg

\* the events the step appended to the response of handler i
NewEvents(i) ==
  SubSeq(sinks'[i].written, Len(sinks[i].written) + 1, Len(sinks'[i].written))

\* handler i and its response before its latest call
Before(i) ==
  replay([h |-> constructor(i, i, "m"), out |-> [j \in {i} |-> NewSink]],
         SubSeq(calls[i], 1, Len(calls[i]) - 1))

LastCall(i) == calls[i][Len(calls[i])]

\* C11: in normal mode a fragment with an end marker and no start marker
\* leaves the mode normal and the accumulator empty and is written as one
\* content_block_delta carrying the fragment unchanged, marker included.
StrayEndIsLiteral ==
  [][\A i \in DOMAIN handlers :
       ( /\ ContentCall(i)
         /\ ~handlers[i].inThinking
         /\ includes(NewFragment(i), EndMarker)
         /\ ~includes(NewFragment(i), StartMarker) )
         => /\ ~handlers'[i].inThinking
            /\ handlers'[i].thinkingBuffer = <<>>
            /\ SubSeq(sinks'[i].written, 1, Len(sinks[i].written)) = sinks[i].written
            /\ SelectSeq(NewEvents(i), IsDelta)
                 = <<[event |-> "content_block_delta",
                      data |-> [type |-> "content_block_delta", index |-> 0,
                                text |-> NewFragment(i)]]>>
            /\ \A k \in 1..Len(NewEvents(i)) :
                 NewEvents(i)[k].event \in {"content_block_start", "content_block_delta"}]_vars

\* a stray end marker arrived in normal mode and went out as a delta
StrayEndWitness ==
  /\ WellFormed(calls[1])
  /\ Len(calls[1]) >= 2
  /\ LastCall(1).op = "handleContent"
  /\ includes(LastCall(1).arg, EndMarker)
  /\ ~Before(1).h.inThinking
  /\ Written(1)[Len(Written(1))].event = "content_block_delta"
  /\ includes(Written(1)[Len(Written(1))].data.text, EndMarker)

\* C15: a handleContent call that starts inside a reasoning segment or opens
\* one, and whose fragment has no end marker, writes no event.
ReasoningNotStreamed ==
  [][\A i \in DOMAIN handlers :
       ( /\ ContentCall(i)
         /\ (handlers[i].inThinking \/ includes(NewFragment(i), StartMarker))
         /\ ~includes(NewFragment(i), EndMarker) )
         => sinks'[i] = sinks[i]]_vars

\* a non-empty fragment arrived inside a reasoning segment and was buffered
ReasoningBufferedWitness ==
  /\ WellFormed(calls[1])
  /\ Len(calls[1]) >= 3
  /\ LastCall(1).op = "handleContent"
  /\ LastCall(1).arg = <<"H", "i">>
  /\ Before(1).h.inThinking
  /\ handlers[1].thinkingBuffer = Before(1).h.thinkingBuffer \o <<"H", "i">>
  /\ Deltas(1) = <<>>

\* C18: handleContent("") in either mode writes no event and leaves mode,
\* accumulator, block flag and token counters as they were.
EmptyFragmentIsNoOp ==
  [][\A i \in DOMAIN handlers :
       (ContentCall(i) /\ NewFragment(i) = <<>>)
         => (sinks'[i] = sinks[i] /\ handlers'[i] = handlers[i])]_vars

\* an empty fragment arrived in normal mode on a started handler
EmptyFragmentWitness ==
  /\ WellFormed(calls[1])
  /\ LastCall(1).op = "handleContent"
  /\ LastCall(1).arg = <<>>
  /\ ~handlers[1].inThinking
  /\ Written(1) = Before(1).out[1].written

\* the text of s before, and behind, the first occurrence of marker
BeforeMarker(s, marker) == SubSeq(s, 1, Min(Occurrences(s, marker)) - 1)

AfterMarker(s, marker) == SubSeq(s, Min(Occurrences(s, marker)) + Len(marker), Len(s))

NewDeltaTexts(i) ==
  LET ds == SelectSeq(NewEvents(i), IsDelta)
  IN [k \in 1..Len(ds) |-> ds[k].data.text]

\* C12: in normal mode the non-empty text before a start marker is written
\* as a visible delta of its own; inside a reasoning segment the non-empty
\* text behind the end marker is written as a visible delta of its own, after
\* the reasoning delta.
ClassifiedInsideFragment ==
  [][\A i \in DOMAIN handlers :
       (ContentCall(i) /\ WellFormed(calls'[i])) =>
         /\ ( /\ ~handlers[i].inThinking
              /\ includes(NewFragment(i), StartMarker)
              /\ BeforeMarker(NewFragment(i), StartMarker) # <<>> )
              => /\ NewDeltaTexts(i) # <<>>
                 /\ NewDeltaTexts(i)[1] = BeforeMarker(NewFragment(i), StartMarker)
         /\ ( /\ handlers[i].inThinking
              /\ ~includes(NewFragment(i), StartMarker)
              /\ includes(NewFragment(i), EndMarker)
              /\ AfterMarker(NewFragment(i), EndMarker) # <<>> )
              => /\ NewDeltaTexts(i) # <<>>
                 /\ NewDeltaTexts(i)[Len(NewDeltaTexts(i))]
                      = AfterMarker(NewFragment(i), EndMarker)]_vars

\* C13: the block flag is set exactly if a content_block_delta was written,
\* content_block_start was written exactly if one was, and no delta carries
\* empty text.
BlockOpenedIffDelta ==
  \A i \in DOMAIN handlers :
    /\ handlers[i].hasContent <=> Deltas(i) # <<>>
    /\ Positions(EventTypes(i), "content_block_start") # {} <=> Deltas(i) # <<>>
    /\ \A k \in 1..Len(Deltas(i)) : DeltaTexts(i)[k] # <<>>

\* the call that wrote the first delta, a flushed reasoning segment, opened the block
BlockOpenedWitness ==
  /\ WellFormed(calls[1])
  /\ Len(calls[1]) >= 3
  /\ LastCall(1).op = "handleContent"
  /\ Before(1).h.inThinking
  /\ ~Before(1).h.hasContent
  /\ handlers[1].hasContent
  /\ Len(Deltas(1)) = 1

\* the step is an end() call on handler i
EndCall(i) ==
  /\ Len(calls'[i]) = Len(calls[i]) + 1
  /\ calls'[i][Len(calls'[i])].op = "end"

IsPrefix(s, t) == Len(s) <= Len(t) /\ SubSeq(t, 1, Len(s)) = s

\* C14: a reasoning segment with non-empty accumulated text, blank text
\* included, is written as exactly one delta and the accumulator cleared when
\* its end marker arrives or, failing that, at end(); no segment is dropped
\* without a flush.
SegmentFlushedOnce ==
  [][\A i \in DOMAIN handlers :
       (WellFormed(calls'[i]) /\ handlers[i].inThinking) =>
         /\ (EndCall(i) /\ handlers[i].thinkingBuffer # <<>>)
              => (Len(NewDeltaTexts(i)) = 1 /\ handlers'[i].thinkingBuffer = <<>>)
         /\ ( /\ ContentCall(i)
              /\ ~includes(NewFragment(i), StartMarker)
              /\ includes(NewFragment(i), EndMarker)
              /\ handlers[i].thinkingBuffer \o BeforeMarker(NewFragment(i), EndMarker) # <<>> )
              => (Len(NewDeltaTexts(i)) = 1 /\ handlers'[i].thinkingBuffer = <<>>)
         /\ ( /\ ContentCall(i)
              /\ handlers[i].thinkingBuffer # <<>>
              /\ ~IsPrefix(handlers[i].thinkingBuffer, handlers'[i].thinkingBuffer) )
              => Len(NewDeltaTexts(i)) = 1]_vars

\* the reasoning text of a scenario's fragments: what lies between its markers
ReasoningText(F) ==
  LET k == Min({j \in 1..Len(F) : includes(F[j], EndMarker)})
  IN SubSeq(F[1], Len(StartMarker) + 1, Len(F[1]))
       \o Concat(SubSeq(F, 2, k - 1))
       \o SubSeq(F[k], 1, Len(F[k]) - Len(EndMarker))

\* t without a newline directly behind the start marker or directly before the end marker
WithoutMarkerNewlines(t) ==
  LET a == IF Len(t) > 0 /\ t[1] = "\n" THEN Tail(t) ELSE t
  IN IF Len(a) > 0 /\ a[Len(a)] = "\n" THEN SubSeq(a, 1, Len(a) - 1) ELSE a

\* C16: only a newline directly at a marker is removed from the reasoning
\* text; every other newline or space of the segment, a newline at the end of
\* a fragment included, is in the reasoning delta unchanged.
WhitespacePreserved ==
  Ended(1) =>
    /\ Deltas(1) # <<>>
    /\ DeltaTexts(1)[1] = WithoutMarkerNewlines(ReasoningText(Fed(1)))

EndCalls(log) == {k \in 1..Len(log) : log[k].op = "end"}

IsBlockEvent(e) ==
  e.event \in {"content_block_start", "content_block_delta", "content_block_stop"}

\* C17: content_block_start is written at most once; after a call sequence
\* ending in its only end(), content_block_stop is written once if
\* content_block_start was and not at all otherwise; every block event
\* carries index 0.
BlockLifecycle ==
  \A i \in DOMAIN handlers :
    LET T == EventTypes(i)
        blockEvents == SelectSeq(Written(i), IsBlockEvent)
    IN /\ Cardinality(Positions(T, "content_block_start")) <= 1
       /\ (Ended(i) /\ Cardinality(EndCalls(calls[i])) = 1)
            => Cardinality(Positions(T, "content_block_stop"))
                 = Cardinality(Positions(T, "content_block_start"))
       /\ EndCalls(calls[i]) = {} => Positions(T, "content_block_stop") = {}
       /\ \A k \in 1..Len(blockEvents) : blockEvents[k].data.index = 0
       /\ handlers[i].contentIndex = 0

\* one end(), which flushed an open reasoning segment into a block and closed it
BlockLifecycleWitness ==
  /\ Ended(1)
  /\ Cardinality(EndCalls(calls[1])) = 1
  /\ handlers[1].inThinking
  /\ Len(Deltas(1)) = 2
  /\ Cardinality(Positions(EventTypes(1), "content_block_start")) = 1
  /\ Cardinality(Positions(EventTypes(1), "content_block_stop")) = 1

\* C19: in normal mode the reasoning accumulator is empty.
NormalModeHasEmptyBuffer ==
  \A i \in DOMAIN handlers :
    ~handlers[i].inThinking => handlers[i].thinkingBuffer = <<>>

\* an end marker closed a segment whose text was accumulated: back in normal mode
SegmentClosedWitness ==
  /\ WellFormed(calls[1])
  /\ Len(calls[1]) >= 3
  /\ LastCall(1).op = "handleContent"
  /\ Before(1).h.inThinking
  /\ Before(1).h.thinkingBuffer # <<>>
  /\ ~handlers[1].inThinking
  /\ handlers[1].thinkingBuffer = <<>>

RECURSIVE WithoutMarkers(_)
\* s with every start and end marker taken out
WithoutMarkers(s) ==
  IF includes(s, StartMarker) THEN WithoutMarkers(removeFirst(s, StartMarker))
  ELSE IF includes(s, EndMarker) THEN WithoutMarkers(removeFirst(s, EndMarker))
  ELSE s

IsInk(c) == ~IsSpace(c)

RECURSIVE IsSubsequence(_, _)
\* the characters of s occur in t in the same order
IsSubsequence(s, t) ==
  IF s = <<>> THEN TRUE
  ELSE IF t = <<>> THEN FALSE
  ELSE IF Head(s) = Head(t) THEN IsSubsequence(Tail(s), Tail(t))
  ELSE IsSubsequence(s, Tail(t))

\* the non-whitespace characters of the fragments fed to handler i, markers left out
FedInk(i) ==
  LET F == Fed(i)
  IN SelectSeq(Concat([k \in 1..Len(F) |-> WithoutMarkers(F[k])]), IsInk)

\* C20: after start(), any fragments and end(), the emitted delta texts
\* together contain, in order, every non-whitespace character of the
\* fragments outside the markers; no accumulated reasoning text is discarded.
NoTextLost ==
  \A i \in DOMAIN handlers :
    Complete(calls[i]) => IsSubsequence(FedInk(i), Concat(DeltaTexts(i)))

=============================================================================
